---------------------------- MODULE Spec2Model ----------------------------
(***************************************************************************)
(* Model of src/tss2-fapi/ifapi_json_deserialize.c: the FAPI JSON          *)
(* deserializers of tpm2-tss.                                              *)
(*                                                                         *)
(* Strings are sequences of one-character strings.  A 64-bit integer is a  *)
(* tuple of four 16-bit limbs, least significant first, in two's           *)
(* complement.                                                             *)
(***************************************************************************)
EXTENDS Integers, Sequences, FiniteSets, TLC

(***************************************************************************)
(* Bounds of the model.                                                    *)
(***************************************************************************)
\* Longest token enumerated over Alphabet (longer ones are listed by name).
MaxTokLen == 3

(***************************************************************************)
(* Characters and C string helpers.                                        *)
(***************************************************************************)
NUL == "NUL"

DecDigits == <<"0", "1", "2", "3", "4", "5", "6", "7", "8", "9">>
HexLower == <<"a", "b", "c", "d", "e", "f">>
HexUpper == <<"A", "B", "C", "D", "E", "F">>
UpperChars == <<"A", "B", "C", "D", "E", "F", "G", "H", "I", "J", "K", "L", "M",
                "N", "O", "P", "Q", "R", "S", "T", "U", "V", "W", "X", "Y", "Z">>
LowerChars == <<"a", "b", "c", "d", "e", "f", "g", "h", "i", "j", "k", "l", "m",
                "n", "o", "p", "q", "r", "s", "t", "u", "v", "w", "x", "y", "z">>

\* Position of c in seq, 0 when it does not occur.
IndexOf(seq, c) ==
    IF \E i \in DOMAIN seq : seq[i] = c
    THEN CHOOSE i \in DOMAIN seq : seq[i] = c
    ELSE 0

\* tolower() in the C locale.
ToLower(c) == IF IndexOf(UpperChars, c) > 0 THEN LowerChars[IndexOf(UpperChars, c)] ELSE c

\* isspace() in the C locale.
IsSpace(c) == c \in {" ", "\t", "\n", "\f", "\r"}

\* The character of C string s at 1-based position k; the terminator past the end.
At(s, k) == IF k <= Len(s) THEN s[k] ELSE NUL

\* &s[n]: the C string that starts n characters into s.
From(s, n) == SubSeq(s, n + 1, Len(s))

\* strncmp(a, b, n) == 0
strncmp_eq(a, b, n) ==
    \A k \in 1..n :
        (\A j \in 1..(k - 1) : At(a, j) # NUL) => At(a, k) = At(b, k)

\* strncasecmp(a, b, n) == 0
strncasecmp_eq(a, b, n) ==
    \A k \in 1..n :
        (\A j \in 1..(k - 1) : At(a, j) # NUL) => ToLower(At(a, k)) = ToLower(At(b, k))

(***************************************************************************)
(* 64-bit integers as four 16-bit limbs.                                   *)
(***************************************************************************)
LimbBase == 2^16

I64Zero == <<0, 0, 0, 0>>

\* (v * m + d) mod 2^64, for small m and d.
I64MulAdd(v, m, d) ==
    LET t1 == v[1] * m + d
        t2 == v[2] * m + (t1 \div LimbBase)
        t3 == v[3] * m + (t2 \div LimbBase)
        t4 == v[4] * m + (t3 \div LimbBase)
    IN  <<t1 % LimbBase, t2 % LimbBase, t3 % LimbBase, t4 % LimbBase>>

\* Two's complement negation mod 2^64.
I64Neg(v) ==
    I64MulAdd(<<LimbBase - 1 - v[1], LimbBase - 1 - v[2],
                LimbBase - 1 - v[3], LimbBase - 1 - v[4]>>, 1, 1)

\* The sign bit of a 64-bit value.
I64Negative(v) == v[4] >= LimbBase \div 2

\* (UINT32) v: the low 32 bits.
CastU32(v) == <<v[1], v[2]>>

\* (int64_t) of a UINT32: zero extension.
U32ToI64(u) == <<u[1], u[2], 0, 0>>

(***************************************************************************)
(* sscanf(s, "%" PRId64 "%n") and sscanf(s, "%" PRIx64 "%n").              *)
(***************************************************************************)
\* The value of digit character c in the given base, -1 if it is no digit.
DigitVal(c, base) ==
    IF IndexOf(DecDigits, c) > 0 THEN IndexOf(DecDigits, c) - 1
    ELSE IF base = 16 /\ IndexOf(HexLower, c) > 0 THEN 9 + IndexOf(HexLower, c)
    ELSE IF base = 16 /\ IndexOf(HexUpper, c) > 0 THEN 9 + IndexOf(HexUpper, c)
    ELSE -1

\* Number of leading white-space characters of s.
RECURSIVE SkipSpace(_, _)
SkipSpace(s, k) == IF IsSpace(At(s, k + 1)) THEN SkipSpace(s, k + 1) ELSE k

\* Accumulate the digits of s from position k on: value and position of the
\* last digit consumed.
RECURSIVE ScanDigits(_, _, _, _)
ScanDigits(s, k, base, acc) ==
    IF DigitVal(At(s, k + 1), base) >= 0
    THEN ScanDigits(s, k + 1, base, I64MulAdd(acc, base, DigitVal(At(s, k + 1), base)))
    ELSE [val |-> acc, pos |-> k]

\* The two C libraries a build can link: one that follows the C standard on an
\* "0x" that no hexadecimal digit follows (a matching failure), and one that
\* takes it as the number 0 and consumes both characters.
Libcs == {"standard", "lenient0x"}

\* One integer conversion followed by %n.  matched: the conversion assigned
\* *num; pos: what %n stored (left at its initial 0 when the conversion failed).
Scan(s, base, libc) ==
    LET ws == SkipSpace(s, 0)
        signed == At(s, ws + 1) \in {"+", "-"}
        st == IF signed THEN ws + 1 ELSE ws
        has0x == base = 16 /\ At(s, st + 1) = "0" /\ At(s, st + 2) \in {"x", "X"}
        bare0x == has0x /\ DigitVal(At(s, st + 3), 16) < 0
        ds == IF has0x /\ ~bare0x THEN st + 2 ELSE st
        d == ScanDigits(s, ds, base, I64Zero)
        val == IF At(s, ws + 1) = "-" THEN I64Neg(d.val) ELSE d.val
    IN  IF bare0x
        THEN IF libc = "lenient0x"
             THEN [matched |-> TRUE, val |-> I64Zero, pos |-> st + 2]
             ELSE [matched |-> FALSE, val |-> I64Zero, pos |-> 0]
        ELSE IF d.pos = ds
             THEN [matched |-> FALSE, val |-> I64Zero, pos |-> 0]
             ELSE [matched |-> TRUE, val |-> val, pos |-> d.pos]

(***************************************************************************)
(* get_token_start_idx and get_number.                                     *)
(***************************************************************************)
tss_const_prefixes ==
    << <<"T", "P", "M", "2", "_", "A", "L", "G", "_">>,
       <<"T", "P", "M", "2", "_">>,
       <<"T", "P", "M", "_">>,
       <<"T", "P", "M", "A", "_">>,
       <<"P", "O", "L", "I", "C", "Y">> >>

\* PrefixLoop without the break: every matching entry adds its length.
RECURSIVE PrefixLoop_NoBreak(_, _)
PrefixLoop_NoBreak(token, i) ==
    IF i > Len(tss_const_prefixes) THEN 0
    ELSE (IF strncasecmp_eq(token, tss_const_prefixes[i], Len(tss_const_prefixes[i]))
          THEN Len(tss_const_prefixes[i]) ELSE 0) + PrefixLoop_NoBreak(token, i + 1)

\* The loop of get_token_start_idx from entry i on.
RECURSIVE PrefixLoop(_, _)
PrefixLoop(token, i) ==
    IF i > Len(tss_const_prefixes) THEN 0
    ELSE IF strncasecmp_eq(token, tss_const_prefixes[i], Len(tss_const_prefixes[i]))
         THEN Len(tss_const_prefixes[i])
         ELSE PrefixLoop(token, i + 1)

get_token_start_idx(token) == PrefixLoop(token, 1)

\* get_number(token, &num): num0 is what num held before the call (it is
\* uninitialized in both callers), ok the return value, num what it holds after.
get_number(token, num0, libc) ==
    LET hex == strncmp_eq(token, <<"0", "x">>, 2)
        itoken == IF hex THEN 2 ELSE 0
        sc == Scan(From(token, itoken), IF hex THEN 16 ELSE 10, libc)
    IN  [ok |-> sc.pos = Len(token) - itoken,
         num |-> IF sc.matched THEN sc.val ELSE num0]

(***************************************************************************)
(* Result codes and the discriminator constants.                           *)
(***************************************************************************)
TSS2_RC_SUCCESS == "SUCCESS"
TSS2_FAPI_RC_BAD_VALUE == "BAD_VALUE"
TSS2_FAPI_RC_MEMORY == "MEMORY"
TSS2_FAPI_RC_GENERAL_FAILURE == "GENERAL_FAILURE"
TSS2_FAPI_RC_BAD_REFERENCE == "BAD_REFERENCE"
TSS2_MU_RC_INSUFFICIENT_BUFFER == "MU_INSUFFICIENT_BUFFER"

\* IFAPI_OBJECT_TYPE_CONSTANT values (UINT32, as two limbs).
IFAPI_KEY_OBJ == <<1, 0>>
IFAPI_NV_OBJ == <<2, 0>>
IFAPI_EXT_PUB_KEY_OBJ == <<3, 0>>
IFAPI_HIERARCHY_OBJ == <<4, 0>>
IFAPI_DUPLICATE_OBJ == <<5, 0>>

\* IFAPI_EVENT_TYPE values (UINT32, as two limbs).
IFAPI_IMA_EVENT_TAG == <<1, 0>>
IFAPI_TSS_EVENT_TAG == <<2, 0>>

(***************************************************************************)
(* The two constant decoders.  out0 is what *out held before the call.     *)
(***************************************************************************)
\* NarrowToU32 without the comparison after the cast.
NarrowToU32_Unchecked(i64) == [rc |-> TSS2_RC_SUCCESS, out |-> CastU32(i64)]

\* The cast-and-compare of both decoders: *out = (UINT32) i64, then the check
\* (int64_t)*out != i64.
NarrowToU32(i64) ==
    [rc |-> IF U32ToI64(CastU32(i64)) # i64 THEN TSS2_FAPI_RC_BAD_VALUE ELSE TSS2_RC_SUCCESS,
     out |-> CastU32(i64)]

ifapi_json_IFAPI_OBJECT_TYPE_CONSTANT_deserialize(token, num0, libc, out0) ==
    LET n == get_number(token, num0, libc)
    IN  IF n.ok THEN NarrowToU32(n.num)
        ELSE [rc |-> TSS2_FAPI_RC_BAD_VALUE, out |-> out0]

deserialize_IFAPI_EVENT_TYPE_tab ==
    << [in |-> IFAPI_IMA_EVENT_TAG,
        name |-> <<"i", "m", "a", "-", "l", "e", "g", "a", "c", "y">>],
       [in |-> IFAPI_TSS_EVENT_TAG,
        name |-> <<"t", "s", "s", "2">>] >>

\* EventTypeCompareLen without the prefix length taken off.
EventTypeCompareLen_Whole(token, itoken) == Len(token)

\* The number of characters strncasecmp compares in the table scan.
EventTypeCompareLen(token, itoken) == Len(token) - itoken

\* The table scan of ifapi_json_IFAPI_EVENT_TYPE_deserialize_txt from entry i on.
RECURSIVE EventTypeLoop(_, _, _, _)
EventTypeLoop(token, itoken, i, out0) ==
    IF i > Len(deserialize_IFAPI_EVENT_TYPE_tab)
    THEN [rc |-> TSS2_FAPI_RC_BAD_VALUE, out |-> out0]
    ELSE IF strncasecmp_eq(From(token, itoken), deserialize_IFAPI_EVENT_TYPE_tab[i].name,
                           EventTypeCompareLen(token, itoken))
         THEN [rc |-> TSS2_RC_SUCCESS, out |-> deserialize_IFAPI_EVENT_TYPE_tab[i].in]
         ELSE EventTypeLoop(token, itoken, i + 1, out0)

ifapi_json_IFAPI_EVENT_TYPE_deserialize_txt(token, num0, libc, out0) ==
    LET n == get_number(token, num0, libc)
    IN  IF n.ok THEN NarrowToU32(n.num)
        ELSE EventTypeLoop(token, get_token_start_idx(token), 1, out0)

(***************************************************************************)
(* The inputs: tokens, the indeterminate contents of an uninitialized      *)
(* int64_t, and JSON documents.                                            *)
(***************************************************************************)
Alphabet == {"0", "x", "1", "A", "2", "6", "G", "-"}

\* Every string over Alphabet of length at most n.
StringsUpTo(n) == UNION {[1..k -> Alphabet] : k \in 0..n}

\* Tokens longer than MaxTokLen, or over other characters.
NamedTokens ==
    { <<"0", "x", "1", "A">>,
      <<"0", "x", "1", "G">>,
      <<"2", "6", "x", "0">>,
      <<"t", "s", "s", "2">>,
      <<"T", "S", "S", "2">>,
      <<"T", "s", "s", "2">>,
      <<"i", "m", "a", "-", "l", "e", "g", "a", "c", "y">>,
      <<"I", "M", "A", "-", "L", "e", "g", "a", "c", "y">>,
      <<"t">>,
      <<"i">>,
      <<"t", "s", "s">>,
      <<"i", "m", "a">>,
      <<"t", "s", "s", "2", "x">>,
      <<"i", "m", "a", "-", "l", "e", "g", "a", "c", "y", "2">>,
      <<"b", "o", "g", "u", "s">>,
      <<"T", "P", "M", "2", "_", "t", "s", "s", "2">>,
      <<"T", "P", "M", "2", "_">>,
      <<"T", "P", "M", "2", "_", "A", "L", "G", "_", "t", "s", "s", "2">>,
      <<"t", "p", "m", "_", "i", "m", "a">>,
      <<"P", "O", "L", "I", "C", "Y", "t", "s", "s", "2">>,
      <<"T", "P", "M", "2", "_", "b", "o", "g", "u", "s">>,
      <<"4", "2", "9", "4", "9", "6", "7", "2", "9", "5">>,
      <<"4", "2", "9", "4", "9", "6", "7", "2", "9", "6">>,
      <<"0", "x", "F", "F", "F", "F", "F", "F", "F", "F">>,
      <<"0", "x", "1", "0", "0", "0", "0", "0", "0", "0", "0">>,
      <<"-", "2", "6">>,
      <<"0", "x", "F", "F", "F", "F", "F", "F", "F", "F", "F", "F", "F", "F", "F", "F", "F", "F">>,
      <<"0", "x", "7", "F", "F", "F", "F", "F", "F", "F", "F", "F", "F", "F", "F", "F", "F", "F">>,
      <<" ", "2", "6">>,
      <<"+", "2", "6">>,
      <<"0", "X", "1", "A">>,
      <<"0", "x", "0", "x", "1", "A">>,
      <<"T", "P", "M", "2", "_", "A", "L", "G", "_", "S", "H", "A", "2", "5", "6">>,
      <<"t", "p", "m", "2", "_", "a", "l", "g", "_">>,
      <<"T", "P", "M", "A", "_", "t", "s", "s", "2">>,
      <<"T", "P", "M", "2">>,
      <<"P", "o", "l", "i", "c", "y">> }

Tokens == StringsUpTo(MaxTokLen) \cup NamedTokens

\* The "objectType" values of the documents given to the object decoder.
ObjectTypeTokens ==
    { <<"1">>,
      <<"2">>,
      <<"3">>,
      <<"4">>,
      <<"5">>,
      <<"0">>,
      <<"6">>,
      <<"0", "x", "5">>,
      <<"4", "2", "9", "4", "9", "6", "7", "2", "9", "7">>,
      <<"-", "1">>,
      <<"b", "o", "g", "u", "s">>,
      <<>> }

\* The "type" values of the documents given to the event decoder.
EventTypeTokens ==
    { <<"t", "s", "s", "2">>,
      <<"T", "S", "S", "2">>,
      <<"i", "m", "a", "-", "l", "e", "g", "a", "c", "y">>,
      <<"1">>,
      <<"2">>,
      <<"7">>,
      <<"t">>,
      <<"t", "s", "s", "2", "x">>,
      <<"b", "o", "g", "u", "s">>,
      <<"T", "P", "M", "2", "_", "t", "s", "s", "2">>,
      <<"4", "2", "9", "4", "9", "6", "7", "2", "9", "8">>,
      <<>> }

\* What an uninitialized int64_t may hold: 0, 2, 2^32, -1.
Indeterminate == {I64Zero, <<2, 0, 0, 0>>, <<0, 0, 1, 0>>,
                  <<LimbBase - 1, LimbBase - 1, LimbBase - 1, LimbBase - 1>>}

(***************************************************************************)
(* Destination values.  TPM2_NO, a NULL pointer, a zero count and a        *)
(* memset-to-zero structure are all the all-zero bit pattern.              *)
(***************************************************************************)
ZERO == "ZERO"
TPM2_NO == ZERO
TPM2_YES == "YES"
NULL == ZERO
ESYS_TR_RH_OWNER == "ESYS_TR_RH_OWNER"
\* A value a child decoder wrote.
DECODED == "DECODED"
\* A decoded TPM2B_PUBLIC whose publicArea.type is TPM2_ALG_KEYEDHASH.
KEYEDHASH == "DECODED_KEYEDHASH"
\* What the destination held before the call when the caller did not clear it.
JUNK == "JUNK"
\* A pointer to an allocation made before the call.
OLD == "OLD"
\* The n-th allocation of the call.
Blk(n) == "P" \o ToString(n)

(***************************************************************************)
(* The decoders as instruction lists, one instruction per field in the     *)
(* order of the code.                                                      *)
(*   req   if (!ifapi_get_sub_object(..)) return BAD_VALUE; r = dec(..);   *)
(*         return_if_error                                                 *)
(*   opt   if (ifapi_get_sub_object(..)) { r = dec(..); return_if_error }  *)
(*         else slot = def                                                 *)
(*   cond  req, inside if (out->public.publicArea.type != KEYEDHASH)       *)
(***************************************************************************)
Req(key, dec) == [op |-> "req", key |-> key, dec |-> dec, slot |-> key, def |-> ZERO]
Opt(key, dec, def) == [op |-> "opt", key |-> key, dec |-> dec, slot |-> key, def |-> def]

ifapi_json_IFAPI_KEY_deserialize ==
    << Req("persistent_handle", "UINT32"),
       Opt("with_auth", "TPMI_YES_NO", TPM2_NO),
       Req("public", "TPM2B_PUBLIC"),
       Req("serialization", "UINT8_ARY"),
       Opt("private", "UINT8_ARY", ZERO),
       Opt("appData", "UINT8_ARY", ZERO),
       Req("policyInstance", "char"),
       Opt("creationData", "TPM2B_CREATION_DATA", ZERO),
       Opt("creationHash", "TPM2B_DIGEST", ZERO),
       Opt("creationTicket", "TPMT_TK_CREATION", ZERO),
       Req("description", "char"),
       Req("certificate", "char"),
       [op |-> "cond", key |-> "signing_scheme", dec |-> "TPMT_SIG_SCHEME",
        slot |-> "signing_scheme", def |-> ZERO],
       Req("name", "TPM2B_NAME"),
       Opt("reset_count", "UINT32", ZERO),
       Opt("delete_prohibited", "TPMI_YES_NO", TPM2_NO) >>

\* The allow-lists handed to ifapi_check_json_object_fields.
field_import_IFAPI_KEY_tab == {"noauth", "public", "private", "$schema"}
field_FAPI_QUOTE_INFO_tab == {"sig_scheme", "attest", "$schema"}
field_IFAPI_TSS_EVENT_tab == {"data", "event", "$schema"}
field_IFAPI_IMA_EVENT_tab == {"eventData", "eventdata", "eventName", "eventname", "$schema"}
field_IFAPI_EVENT_tab == {"recnum", "pcr", "digests", "type", "sub_event", "$schema"}

\* An instruction that reads no field of its own.
Stmt(op, slot) == [op |-> op, key |-> "none", dec |-> "none", slot |-> slot, def |-> ZERO]

\* The call of ifapi_check_json_object_fields at the head of a decoder.
CheckFields == Stmt("check", "none")

\* memset(out, 0, ..), the allow-list check, noauth (stored inverted in
\* with_auth), the public blob (decoded, unmarshalled into out->public,
\* released), the private blob (decoded, unmarshalled, released, copied into a
\* buffer of out->private), and three strdup_check of "".  public_blob and
\* private_blob are locals of the function.
ifapi_json_import_IFAPI_KEY_deserialize ==
    << Stmt("memset", "none"),
       CheckFields,
       [op |-> "noauth", key |-> "noauth", dec |-> "noauth", slot |-> "with_auth",
        def |-> TPM2_YES],
       [op |-> "import_public", key |-> "public", dec |-> "UINT8_ARY_blob", slot |-> "public_blob",
        def |-> ZERO],
       [op |-> "import_private", key |-> "private", dec |-> "UINT8_ARY_blob", slot |-> "private_blob",
        def |-> ZERO],
       Stmt("strdup_check", "policyInstance"),
       Stmt("strdup_check", "description"),
       Stmt("strdup_check", "certificate") >>

ifapi_json_IFAPI_EXT_PUB_KEY_deserialize ==
    << Req("pem_ext_public", "char"),
       Opt("certificate", "char", NULL),
       Opt("public", "TPM2B_PUBLIC", ZERO) >>

ifapi_json_IFAPI_NV_deserialize ==
    << Opt("appData", "UINT8_ARY", ZERO),
       Opt("with_auth", "TPMI_YES_NO", TPM2_NO),
       Req("public", "TPM2B_NV_PUBLIC"),
       Req("serialization", "UINT8_ARY"),
       Req("hierarchy", "UINT32"),
       Req("policyInstance", "char"),
       Req("description", "char"),
       Opt("event_log", "char", NULL) >>

ifapi_json_IFAPI_HIERARCHY_deserialize ==
    << Opt("with_auth", "TPMI_YES_NO", TPM2_NO),
       Req("authPolicy", "TPM2B_DIGEST"),
       Req("description", "char"),
       Opt("esysHandle", "UINT32", ESYS_TR_RH_OWNER) >>

ifapi_json_FAPI_QUOTE_INFO_deserialize ==
    << CheckFields,
       Req("sig_scheme", "TPMT_SIG_SCHEME"),
       Req("attest", "TPMS_ATTEST") >>

\* The last instruction: calloc and TPMS_POLICY decode into out->policy when
\* "policy" is present (error_cleanup on failure), out->policy = NULL otherwise.
ifapi_json_IFAPI_DUPLICATE_deserialize ==
    << Req("duplicate", "TPM2B_PRIVATE"),
       Req("encrypted_seed", "TPM2B_ENCRYPTED_SECRET"),
       Opt("certificate", "char", NULL),
       Req("public", "TPM2B_PUBLIC"),
       Req("public_parent", "TPM2B_PUBLIC"),
       [op |-> "policy", key |-> "policy", dec |-> "TPMS_POLICY",
        slot |-> "key_tree.policy", def |-> NULL] >>

\* objectType, the switch on it, ifapi_set_name_hierarchy_object (reached in
\* the hierarchy case alone), system, policy.
ifapi_json_IFAPI_OBJECT_deserialize ==
    << Req("objectType", "IFAPI_OBJECT_TYPE_CONSTANT"),
       [op |-> "switch", key |-> "objectType", dec |-> "none", slot |-> "none", def |-> ZERO],
       [op |-> "set_name", key |-> "none", dec |-> "none", slot |-> "name", def |-> ZERO],
       Opt("system", "TPMI_YES_NO", TPM2_NO),
       [op |-> "policy", key |-> "policy", dec |-> "TPMS_POLICY",
        slot |-> "policy", def |-> NULL] >>

\* "event" is stored as the strdup of its JSON text.
ifapi_json_IFAPI_TSS_EVENT_deserialize ==
    << CheckFields,
       Req("data", "TPM2B_EVENT"),
       Opt("event", "json_to_string", NULL) >>

ifapi_json_IFAPI_IMA_EVENT_deserialize ==
    << CheckFields,
       Req("eventData", "TPM2B_DIGEST"),
       Req("eventName", "char") >>

\* The last instruction: look "sub_event" up and hand it, with out->type, to
\* ifapi_json_IFAPI_EVENT_UNION_deserialize.
ifapi_json_IFAPI_EVENT_deserialize ==
    << CheckFields,
       Req("recnum", "UINT32"),
       Req("pcr", "TPM2_HANDLE"),
       Req("digests", "TPML_DIGEST_VALUES"),
       Req("type", "IFAPI_EVENT_TYPE"),
       [op |-> "union", key |-> "sub_event", dec |-> "IFAPI_EVENT_UNION",
        slot |-> "sub_event", def |-> ZERO] >>

\* The decoders a caller can invoke.
Decoders == {"IFAPI_KEY", "IFAPI_EXT_PUB_KEY", "IFAPI_NV", "IFAPI_HIERARCHY",
             "FAPI_QUOTE_INFO", "IFAPI_DUPLICATE", "IFAPI_OBJECT",
             "IFAPI_TSS_EVENT", "IFAPI_IMA_EVENT", "IFAPI_EVENT", "import_IFAPI_KEY"}

Prog(f) ==
    CASE f = "IFAPI_KEY" -> ifapi_json_IFAPI_KEY_deserialize
      [] f = "IFAPI_EXT_PUB_KEY" -> ifapi_json_IFAPI_EXT_PUB_KEY_deserialize
      [] f = "IFAPI_NV" -> ifapi_json_IFAPI_NV_deserialize
      [] f = "IFAPI_HIERARCHY" -> ifapi_json_IFAPI_HIERARCHY_deserialize
      [] f = "FAPI_QUOTE_INFO" -> ifapi_json_FAPI_QUOTE_INFO_deserialize
      [] f = "IFAPI_DUPLICATE" -> ifapi_json_IFAPI_DUPLICATE_deserialize
      [] f = "IFAPI_OBJECT" -> ifapi_json_IFAPI_OBJECT_deserialize
      [] f = "IFAPI_TSS_EVENT" -> ifapi_json_IFAPI_TSS_EVENT_deserialize
      [] f = "IFAPI_IMA_EVENT" -> ifapi_json_IFAPI_IMA_EVENT_deserialize
      [] f = "IFAPI_EVENT" -> ifapi_json_IFAPI_EVENT_deserialize
      [] f = "import_IFAPI_KEY" -> ifapi_json_import_IFAPI_KEY_deserialize

\* The allow-list of a decoder that checks the keys of its object.
AllowList(f) ==
    CASE f = "import_IFAPI_KEY" -> field_import_IFAPI_KEY_tab
      [] f = "FAPI_QUOTE_INFO" -> field_FAPI_QUOTE_INFO_tab
      [] f = "IFAPI_TSS_EVENT" -> field_IFAPI_TSS_EVENT_tab
      [] f = "IFAPI_IMA_EVENT" -> field_IFAPI_IMA_EVENT_tab
      [] f = "IFAPI_EVENT" -> field_IFAPI_EVENT_tab

\* The decoders that check the keys of their object.
Validating == {"import_IFAPI_KEY", "FAPI_QUOTE_INFO", "IFAPI_TSS_EVENT", "IFAPI_IMA_EVENT",
               "IFAPI_EVENT"}

\* A key that is in no allow-list.
UnknownKey == "unknown_key"

\* Every JSON key and every destination slot of the decoders.
Keys == UNION {{Prog(f)[i].key : i \in DOMAIN Prog(f)} : f \in Decoders} \ {"none"}
Slots == UNION {{Prog(f)[i].slot : i \in DOMAIN Prog(f)} : f \in Decoders} \ {"none"}

\* The slots the code hands to free().
FreedSlots == {"policy", "key_tree.policy"}

\* The locals of ifapi_json_import_IFAPI_KEY_deserialize that hold buffers.
LocalSlots == {"public_blob", "private_blob"}

\* The fields of an IFAPI_KEY.
KeySlots == {ifapi_json_IFAPI_KEY_deserialize[i].slot : i \in DOMAIN ifapi_json_IFAPI_KEY_deserialize}

\* What allocation can be asked for beyond the decode of a key's value: the
\* copy of the private data.
MemKeys == Keys \cup {"private_copy"}

\* ObjectSwitchTarget with the break of the NV case left out: it falls
\* through to the duplicate case.
ObjectSwitchTarget_Fallthrough(objectType) ==
    CASE objectType = IFAPI_NV_OBJ -> "IFAPI_DUPLICATE"
      [] objectType = IFAPI_DUPLICATE_OBJ -> "IFAPI_DUPLICATE"
      [] objectType = IFAPI_EXT_PUB_KEY_OBJ -> "IFAPI_EXT_PUB_KEY"
      [] objectType = IFAPI_HIERARCHY_OBJ -> "IFAPI_HIERARCHY"
      [] objectType = IFAPI_KEY_OBJ -> "IFAPI_KEY"
      [] OTHER -> "none"

\* The switch of ifapi_json_IFAPI_OBJECT_deserialize: the decoder run for an
\* objectType, "none" for the default case.
ObjectSwitchTarget(objectType) ==
    CASE objectType = IFAPI_NV_OBJ -> "IFAPI_NV"
      [] objectType = IFAPI_DUPLICATE_OBJ -> "IFAPI_DUPLICATE"
      [] objectType = IFAPI_EXT_PUB_KEY_OBJ -> "IFAPI_EXT_PUB_KEY"
      [] objectType = IFAPI_HIERARCHY_OBJ -> "IFAPI_HIERARCHY"
      [] objectType = IFAPI_KEY_OBJ -> "IFAPI_KEY"
      [] OTHER -> "none"

\* The event union switch with the two case labels exchanged.
ifapi_json_IFAPI_EVENT_UNION_deserialize_Swapped(selector) ==
    CASE selector = IFAPI_TSS_EVENT_TAG -> "IFAPI_IMA_EVENT"
      [] selector = IFAPI_IMA_EVENT_TAG -> "IFAPI_TSS_EVENT"
      [] OTHER -> "none"

\* The event union switch with the TSS case as the default.
ifapi_json_IFAPI_EVENT_UNION_deserialize_Default(selector) ==
    CASE selector = IFAPI_IMA_EVENT_TAG -> "IFAPI_IMA_EVENT"
      [] OTHER -> "IFAPI_TSS_EVENT"

\* The switch of ifapi_json_IFAPI_EVENT_UNION_deserialize.
ifapi_json_IFAPI_EVENT_UNION_deserialize(selector) ==
    CASE selector = IFAPI_TSS_EVENT_TAG -> "IFAPI_TSS_EVENT"
      [] selector = IFAPI_IMA_EVENT_TAG -> "IFAPI_IMA_EVENT"
      [] OTHER -> "none"

(***************************************************************************)
(* The child decoders and the handling of one field.                       *)
(***************************************************************************)
\* Decoders that allocate what they store (strdup, malloc).
AllocDecs == {"char", "json_to_string", "UINT8_ARY"}

\* What a document can hold under a key that is present, per decoder: "ok" a
\* value the decoder accepts, "bad" one it rejects.  Every JSON node has a
\* string form, so the string decoders reject nothing.
PresentValues(dec) ==
    CASE dec \in {"char", "json_to_string", "IFAPI_OBJECT_TYPE_CONSTANT",
                  "IFAPI_EVENT_TYPE", "IFAPI_EVENT_UNION"} -> {"ok"}
      [] dec = "TPM2B_PUBLIC" -> {"ok", "ok_keyedhash", "bad"}
      [] dec = "UINT8_ARY_blob" -> {"ok", "bad_blob", "bad"}
      [] dec = "noauth" -> {"ok", "ok_yes", "bad"}
      [] OTHER -> {"ok", "bad"}

\* ifapi_json_char_deserialize, and the strdup of a JSON text: *out = strdup(..);
\* return_if_null(*out, .., TSS2_FAPI_RC_MEMORY).
ifapi_json_char_deserialize(oom) ==
    IF oom
    THEN [rc |-> TSS2_FAPI_RC_MEMORY, val |-> NULL, alloc |-> FALSE]
    ELSE [rc |-> TSS2_RC_SUCCESS, val |-> NULL, alloc |-> TRUE]

\* The decoders of tpm_json_deserialize.c: success stores the value, failure
\* returns TSS2_FAPI_RC_BAD_VALUE (TSS2_FAPI_RC_MEMORY when the byte buffer of a
\* UINT8_ARY cannot be allocated) and leaves the slot as it was.
TpmJsonDeserialize(dec, v, oom, cur) ==
    IF v = "bad" THEN [rc |-> TSS2_FAPI_RC_BAD_VALUE, val |-> cur, alloc |-> FALSE]
    ELSE IF dec = "UINT8_ARY"
         THEN IF oom THEN [rc |-> TSS2_FAPI_RC_MEMORY, val |-> cur, alloc |-> FALSE]
              ELSE [rc |-> TSS2_RC_SUCCESS, val |-> cur, alloc |-> TRUE]
         ELSE [rc |-> TSS2_RC_SUCCESS,
               val |-> IF v = "ok_keyedhash" THEN KEYEDHASH ELSE DECODED,
               alloc |-> FALSE]

\* Tss2_MU_TPM2B_PUBLIC_Unmarshal / Tss2_MU_TPM2B_PRIVATE_Unmarshal on the bytes
\* of a blob: "bad_blob" is a byte array that is no marshalled structure.
Tss2_MU_Unmarshal(v) ==
    IF v = "bad_blob" THEN TSS2_MU_RC_INSUFFICIENT_BUFFER ELSE TSS2_RC_SUCCESS

\* ifapi_check_json_object_fields(jso, tab, n): the keys of the object that
\* the table does not hold are logged; nothing is returned.
ifapi_check_json_object_fields(keys, tab) == {k \in keys : k \notin tab}

\* SAFE_FREE(p): free(p) and p = NULL when p is not NULL.
SAFE_FREE(p) == [freed |-> IF p = NULL THEN <<>> ELSE <<p>>, ptr |-> NULL]

\* r = <dec>_deserialize(jso2, &out-><slot>) on a field that is present.
ChildDecode(dec, v, oom, cur) ==
    IF dec \in {"char", "json_to_string"}
    THEN ifapi_json_char_deserialize(oom)
    ELSE TpmJsonDeserialize(dec, v, oom, cur)

\* AbsentField with the else branch of an optional field left out: the slot
\* keeps what it held.
AbsentField_NoDefault(in, cur) ==
    IF in.op = "opt"
    THEN [rc |-> TSS2_RC_SUCCESS, val |-> cur, alloc |-> FALSE, log |-> "none"]
    ELSE [rc |-> TSS2_FAPI_RC_BAD_VALUE, val |-> cur, alloc |-> FALSE, log |-> "not_found"]

\* AbsentField with the not-found check of a required field left out.
AbsentField_NoCheck(in, cur) ==
    [rc |-> TSS2_RC_SUCCESS, val |-> IF in.op = "opt" THEN in.def ELSE cur,
     alloc |-> FALSE, log |-> "none"]

\* AbsentField returning a result of its own for a required field not found.
AbsentField_OwnResult(in, cur) ==
    IF in.op = "opt"
    THEN [rc |-> TSS2_RC_SUCCESS, val |-> in.def, alloc |-> FALSE, log |-> "none"]
    ELSE [rc |-> TSS2_FAPI_RC_GENERAL_FAILURE, val |-> cur, alloc |-> FALSE, log |-> "not_found"]

\* A field that ifapi_get_sub_object does not find: a required one is logged
\* as not found and fails the decoder, an optional one takes its default.
AbsentField(in, cur) ==
    IF in.op = "opt"
    THEN [rc |-> TSS2_RC_SUCCESS, val |-> in.def, alloc |-> FALSE, log |-> "none"]
    ELSE [rc |-> TSS2_FAPI_RC_BAD_VALUE, val |-> cur, alloc |-> FALSE, log |-> "not_found"]

\* A field that is found: the child decoder's result, logged as a bad value
\* when it failed.
PresentField(in, v, oom, cur) ==
    LET c == ChildDecode(in.dec, v, oom, cur)
    IN  [rc |-> c.rc, val |-> c.val, alloc |-> c.alloc,
         log |-> IF c.rc = TSS2_RC_SUCCESS THEN "none" ELSE "bad_value"]

\* FieldIsRun with the test of the public area's type left out.
FieldIsRun_Always(in, publicSlot) == TRUE

\* Whether the field's code is run at all: signing_scheme is handled only when
\* out->public.publicArea.type != TPM2_ALG_KEYEDHASH.
FieldIsRun(in, publicSlot) == in.op = "cond" => publicSlot # KEYEDHASH

(***************************************************************************)
(* State.                                                                  *)
(***************************************************************************)
VARIABLES
    pc,        \* "idle", "run", "cleanup" (at a cleanup label), "ret" (returning
               \* an error), "done"; "tokdone" after a call of a token function
    fn,        \* the function the caller invoked
    stack,     \* the active decoder calls, innermost last: [f, i] = decoder, next instruction
    doc,       \* the JSON document: key -> "absent", "ok", ..; "?" while no lookup has read it
    tok,       \* the token of the document's objectType or type, or of a token function call
    out,       \* the destination: slot -> value
    sel,       \* the destination's objectType or type (UINT32 as two limbs)
    pre,       \* how the caller passed the destination: "zero", "stale" or "null"
    r,         \* the result code
    report,    \* the first error logged: [log, field]
    nalloc,    \* allocations made by the call; they are Blk(1) .. Blk(nalloc)
    frees,     \* the pointers handed to free(), in order
    trace,     \* lookups, child decodes and decoder calls, in order
    tcall,     \* a token function call: [f, num0, libc, out0]
    tres,      \* its result: [ok, rc, num, out, idx]
    mem,       \* the allocator: key -> "ok" or "oom" for the allocation made for
               \* that key's value; "?" while none was asked for
    extra,     \* the document's objects hold a key that is in no allow-list
    warn,      \* the keys ifapi_check_json_object_fields logged
    first      \* the outcome of decoding the document before the key was added

vars == <<pc, fn, stack, doc, tok, out, sel, pre, r, report, nalloc, frees, trace, tcall, tres,
          mem, extra, warn, first>>

harnessVars == <<extra, warn, first>>
decodeVars == <<fn, stack, doc, out, sel, pre, r, report, nalloc, frees, trace, mem, harnessVars>>
tokenVars == <<tok, tcall, tres>>

NoOutcome == [r |-> "none"]

NoCall == [f |-> "none", num0 |-> I64Zero, libc |-> "standard", out0 |-> <<0, 0>>]
NoResult == [ok |-> FALSE, rc |-> "none", num |-> I64Zero, out |-> <<0, 0>>, idx |-> 0]
NoReport == [log |-> "none", field |-> "none"]

\* What the destination holds when the decoder is entered.
PreState(p) ==
    [s \in Slots |-> IF p = "zero" THEN ZERO ELSE IF s \in FreedSlots THEN OLD ELSE JUNK]
PreSel(p) == IF p = "zero" THEN <<0, 0>> ELSE <<LimbBase - 1, LimbBase - 1>>

Init ==
    /\ pc = "idle"
    /\ fn = "none"
    /\ stack = <<>>
    /\ doc = [k \in Keys |-> "?"]
    /\ tok = <<>>
    /\ out = PreState("zero")
    /\ sel = <<0, 0>>
    /\ pre = "zero"
    /\ r = TSS2_RC_SUCCESS
    /\ report = NoReport
    /\ nalloc = 0
    /\ frees = <<>>
    /\ trace = <<>>
    /\ tcall = NoCall
    /\ tres = NoResult
    /\ mem = [k \in MemKeys |-> "?"]
    /\ extra = FALSE
    /\ warn = {}
    /\ first = NoOutcome

(***************************************************************************)
(* Decoder steps.                                                          *)
(***************************************************************************)
Top == stack[Len(stack)]
Cur == Prog(Top.f)[Top.i]
AtInstr == pc = "run" /\ stack # <<>> /\ Top.i <= Len(Prog(Top.f))
Advance(n) == [stack EXCEPT ![Len(stack)].i = @ + n]
Push(st, f) == Append(st, [f |-> f, i |-> 1])

\* ifapi_get_sub_object(jso, key, &jso2): what the document holds under key.
LookupValues(in) ==
    IF doc[in.key] # "?" THEN {doc[in.key]} ELSE {"absent"} \cup PresentValues(in.dec)

\* The keys a decoder fails without (signing_scheme: unless the key is a
\* keyed-hash key).
RequiredKeys(f) ==
    {Prog(f)[i].key : i \in {j \in DOMAIN Prog(f) :
                                Prog(f)[j].op \in {"req", "cond", "union", "import_public"}}}

\* A caller invokes a decoder on a document that lacks one of the decoder's
\* required keys, or on one that is read key by key as the decoder looks them
\* up; return_if_null(out, .., TSS2_FAPI_RC_BAD_REFERENCE).
Call ==
    /\ pc = "idle"
    /\ \E f \in Decoders, p \in {"zero", "stale", "null"} : \E a \in {"none"} \cup RequiredKeys(f) :
        /\ fn' = f
        /\ pre' = p
        /\ doc' = [k \in Keys |-> IF k = a THEN "absent" ELSE "?"]
        /\ out' = PreState(p)
        /\ sel' = PreSel(p)
        /\ trace' = <<<<"call", f>>>>
        /\ IF p = "null"
           THEN /\ pc' = "done"
                /\ r' = TSS2_FAPI_RC_BAD_REFERENCE
                /\ report' = [log |-> "bad_reference", field |-> "none"]
                /\ stack' = <<>>
           ELSE /\ pc' = "run"
                /\ r' = TSS2_RC_SUCCESS
                /\ report' = NoReport
                /\ stack' = Push(<<>>, f)
    /\ UNCHANGED <<nalloc, frees, tokenVars, mem, harnessVars>>

\* Whether an allocation asked for on behalf of key k fails: the allocator
\* decides once per key and document.
AllocOutcomes(k, dec) ==
    IF dec \notin AllocDecs THEN {FALSE}
    ELSE IF mem[k] = "?" THEN BOOLEAN ELSE {mem[k] = "oom"}
Asked(k, oom) == [mem EXCEPT ![k] = IF oom THEN "oom" ELSE "ok"]

\* One required, optional or conditional field with a child decoder.
FieldStep ==
    /\ AtInstr
    /\ Cur.op \in {"req", "opt", "cond"}
    /\ Cur.dec \notin {"IFAPI_OBJECT_TYPE_CONSTANT", "IFAPI_EVENT_TYPE"}
    /\ FieldIsRun(Cur, out["public"])
    /\ \E v \in LookupValues(Cur) :
        \E oom \in (IF v \in {"absent", "bad"} THEN {FALSE} ELSE AllocOutcomes(Cur.key, Cur.dec)) :
        LET o == IF v = "absent" THEN AbsentField(Cur, out[Cur.slot])
                 ELSE PresentField(Cur, v, oom, out[Cur.slot])
        IN  /\ doc' = [doc EXCEPT ![Cur.key] = v]
            /\ mem' = IF v \in {"absent", "bad"} \/ Cur.dec \notin AllocDecs THEN mem
                      ELSE Asked(Cur.key, oom)
            /\ trace' = IF v = "absent" THEN Append(trace, <<"lookup", Cur.key>>)
                        ELSE trace \o << <<"lookup", Cur.key>>, <<"decode", Cur.key>> >>
            /\ out' = [out EXCEPT ![Cur.slot] = IF o.alloc THEN Blk(nalloc + 1) ELSE o.val]
            /\ nalloc' = IF o.alloc THEN nalloc + 1 ELSE nalloc
            /\ IF o.rc = TSS2_RC_SUCCESS
               THEN /\ stack' = Advance(1)
                    /\ UNCHANGED <<pc, r, report>>
               ELSE /\ pc' = "ret"
                    /\ r' = o.rc
                    /\ report' = [log |-> o.log, field |-> Cur.key]
                    /\ UNCHANGED stack
    /\ UNCHANGED <<fn, sel, pre, frees, tokenVars, harnessVars>>

\* signing_scheme of a keyed-hash key: the if body is not entered.
SkipField ==
    /\ AtInstr
    /\ Cur.op = "cond"
    /\ ~FieldIsRun(Cur, out["public"])
    /\ stack' = Advance(1)
    /\ UNCHANGED <<pc, fn, doc, out, sel, pre, r, report, nalloc, frees, trace, tokenVars, mem, harnessVars>>

\* The tokens the documents hold under a discriminator key.
DiscriminatorTokens(dec) ==
    IF dec = "IFAPI_OBJECT_TYPE_CONSTANT" THEN ObjectTypeTokens ELSE EventTypeTokens

DiscriminatorDecode(dec, token, num0, libc, out0) ==
    IF dec = "IFAPI_OBJECT_TYPE_CONSTANT"
    THEN ifapi_json_IFAPI_OBJECT_TYPE_CONSTANT_deserialize(token, num0, libc, out0)
    ELSE ifapi_json_IFAPI_EVENT_TYPE_deserialize_txt(token, num0, libc, out0)

\* "objectType" of an object, "type" of an event: required, decoded by one of
\* the two constant decoders into out->objectType or out->type.
DiscriminatorEffect(v, t, g, l) ==
    LET d == DiscriminatorDecode(Cur.dec, t, g, l, sel)
    IN  /\ doc' = [doc EXCEPT ![Cur.key] = v]
        /\ IF v = "absent"
           THEN /\ pc' = "ret"
                /\ r' = AbsentField(Cur, ZERO).rc
                /\ report' = [log |-> "not_found", field |-> Cur.key]
                /\ trace' = Append(trace, <<"lookup", Cur.key>>)
                /\ UNCHANGED <<stack, sel, tok, tcall>>
           ELSE /\ tok' = t
                /\ IF fn \in Validating
                   THEN tcall' = [NoCall EXCEPT !.num0 = g, !.libc = l]
                   ELSE UNCHANGED tcall
                /\ sel' = d.out
                /\ trace' = trace \o << <<"lookup", Cur.key>>, <<"decode", Cur.key>> >>
                /\ IF d.rc = TSS2_RC_SUCCESS
                   THEN /\ stack' = Advance(1)
                        /\ UNCHANGED <<pc, r, report>>
                   ELSE /\ pc' = "ret"
                        /\ r' = d.rc
                        /\ report' = [log |-> "bad_value", field |-> Cur.key]
                        /\ UNCHANGED stack

DiscriminatorStep ==
    /\ AtInstr
    /\ Cur.op = "req"
    /\ Cur.dec \in {"IFAPI_OBJECT_TYPE_CONSTANT", "IFAPI_EVENT_TYPE"}
    /\ ~extra
    /\ \E v \in LookupValues(Cur) :
        \E t \in DiscriminatorTokens(Cur.dec), g \in Indeterminate, l \in Libcs :
            DiscriminatorEffect(v, t, g, l)
    /\ UNCHANGED <<fn, out, pre, nalloc, frees, tres, mem, harnessVars>>

\* The same step when the same document is decoded a second time: the
\* document holds the token it held, and the call finds the stack and the
\* C library as the first call found them.
DiscriminatorAgainStep ==
    /\ extra
    /\ AtInstr
    /\ Cur.op = "req"
    /\ Cur.dec \in {"IFAPI_OBJECT_TYPE_CONSTANT", "IFAPI_EVENT_TYPE"}
    /\ DiscriminatorEffect(doc[Cur.key], tok, tcall.num0, tcall.libc)
    /\ UNCHANGED <<fn, out, pre, nalloc, frees, tres, mem, harnessVars>>

\* SwitchResume with the name derivation placed after the switch.
SwitchResume_Always(target) == IF target = "none" THEN 2 ELSE 1

\* Where a case of the switch goes on once its decoder has returned: the
\* hierarchy case at ifapi_set_name_hierarchy_object (the next instruction),
\* every other case at its break (the instruction after that one).
SwitchResume(target) == IF target = "IFAPI_HIERARCHY" THEN 1 ELSE 2

\* switch (out->objectType): run the variant's decoder on the same node;
\* default: goto_error(r, TSS2_FAPI_RC_GENERAL_FAILURE, .., cleanup).
SwitchStep ==
    /\ AtInstr
    /\ Cur.op = "switch"
    /\ LET target == ObjectSwitchTarget(sel)
       IN  IF target = "none"
           THEN /\ pc' = "cleanup"
                /\ r' = TSS2_FAPI_RC_GENERAL_FAILURE
                /\ report' = [log |-> "invalid_call", field |-> "objectType"]
                /\ UNCHANGED <<stack, trace>>
           ELSE /\ stack' = Push(Advance(SwitchResume(target)), target)
                /\ trace' = Append(trace, <<"call", target>>)
                /\ UNCHANGED <<pc, r, report>>
    /\ UNCHANGED <<fn, doc, out, sel, pre, nalloc, frees, tokenVars, mem, harnessVars>>

\* r = ifapi_set_name_hierarchy_object(out); return_if_error.  The function is
\* outside this file: it derives the name or fails.
SetNameStep ==
    /\ AtInstr
    /\ Cur.op = "set_name"
    /\ \E ok \in BOOLEAN :
        /\ trace' = Append(trace, <<"set_name", "hierarchy">>)
        /\ IF ok
           THEN /\ out' = [out EXCEPT ![Cur.slot] = DECODED]
                /\ stack' = Advance(1)
                /\ UNCHANGED <<pc, r, report>>
           ELSE /\ pc' = "ret"
                /\ r' = TSS2_FAPI_RC_BAD_VALUE
                /\ report' = [log |-> "bad_hierarchy", field |-> "none"]
                /\ UNCHANGED <<out, stack>>
    /\ UNCHANGED <<fn, doc, sel, pre, nalloc, frees, tokenVars, mem, harnessVars>>

\* "policy": out->policy = calloc(..), goto cleanup if NULL; TPMS_POLICY decode
\* into it, goto cleanup on error; out->policy = NULL when the key is absent.
PolicyStep ==
    /\ AtInstr
    /\ Cur.op = "policy"
    /\ \E v \in LookupValues(Cur), oom \in BOOLEAN :
        /\ doc' = [doc EXCEPT ![Cur.key] = v]
        /\ IF v = "absent"
           THEN /\ out' = [out EXCEPT ![Cur.slot] = NULL]
                /\ trace' = Append(trace, <<"lookup", Cur.key>>)
                /\ stack' = Advance(1)
                /\ UNCHANGED <<pc, r, report, nalloc>>
           ELSE IF oom
           THEN /\ out' = [out EXCEPT ![Cur.slot] = NULL]
                /\ trace' = Append(trace, <<"lookup", Cur.key>>)
                /\ pc' = "cleanup"
                /\ r' = TSS2_FAPI_RC_MEMORY
                /\ report' = [log |-> "out_of_memory", field |-> Cur.key]
                /\ UNCHANGED <<stack, nalloc>>
           ELSE /\ out' = [out EXCEPT ![Cur.slot] = Blk(nalloc + 1)]
                /\ nalloc' = nalloc + 1
                /\ trace' = trace \o << <<"lookup", Cur.key>>, <<"decode", Cur.key>> >>
                /\ IF v = "ok"
                   THEN /\ stack' = Advance(1)
                        /\ UNCHANGED <<pc, r, report>>
                   ELSE /\ pc' = "cleanup"
                        /\ r' = TSS2_FAPI_RC_BAD_VALUE
                        /\ report' = [log |-> "bad_value", field |-> Cur.key]
                        /\ UNCHANGED stack
    /\ UNCHANGED <<fn, sel, pre, frees, tokenVars, mem, harnessVars>>

\* The out->policy a decoder's cleanup label names.
PolicySlot(f) == IF f = "IFAPI_DUPLICATE" THEN "key_tree.policy" ELSE "policy"

\* What a decoder's cleanup label hands to SAFE_FREE, in order.
CleanupSlots(f) ==
    IF f = "import_IFAPI_KEY" THEN <<"public_blob", "private_blob">> ELSE <<PolicySlot(f)>>

\* CleanupStep with a label that only returns r.
CleanupStep_ReturnOnly ==
    /\ pc = "cleanup"
    /\ pc' = "ret"
    /\ UNCHANGED <<fn, stack, doc, out, sel, pre, r, report, nalloc, frees, trace, tokenVars, mem,
                   harnessVars>>

\* cleanup: / error_cleanup: SAFE_FREE(..); return r;
CleanupStep ==
    /\ pc = "cleanup"
    /\ LET cs == CleanupSlots(Top.f)
           fr == [i \in DOMAIN cs |-> SAFE_FREE(out[cs[i]])]
       IN  /\ frees' = frees \o (IF Len(cs) = 1 THEN fr[1].freed ELSE fr[1].freed \o fr[2].freed)
           /\ out' = [s \in DOMAIN out |->
                        IF \E i \in DOMAIN cs : cs[i] = s THEN NULL ELSE out[s]]
    /\ pc' = "ret"
    /\ UNCHANGED <<fn, stack, doc, sel, pre, r, report, nalloc, trace, tokenVars, mem, harnessVars>>

\* "sub_event": required; ifapi_json_IFAPI_EVENT_UNION_deserialize(out->type,
\* jso2, &out->sub_event) runs the payload decoder of the type, or fails.
UnionStep ==
    /\ AtInstr
    /\ Cur.op = "union"
    /\ \E v \in LookupValues(Cur) :
        /\ doc' = [doc EXCEPT ![Cur.key] = v]
        /\ IF v = "absent"
           THEN /\ pc' = "ret"
                /\ r' = AbsentField(Cur, ZERO).rc
                /\ report' = [log |-> "not_found", field |-> Cur.key]
                /\ trace' = Append(trace, <<"lookup", Cur.key>>)
                /\ UNCHANGED stack
           ELSE LET target == ifapi_json_IFAPI_EVENT_UNION_deserialize(sel)
                IN  IF target = "none"
                    THEN /\ pc' = "ret"
                         /\ r' = TSS2_FAPI_RC_BAD_VALUE
                         /\ report' = [log |-> "bad_value", field |-> Cur.key]
                         /\ trace' = trace \o << <<"lookup", Cur.key>>, <<"decode", Cur.key>> >>
                         /\ UNCHANGED stack
                    ELSE /\ stack' = Push(Advance(1), target)
                         /\ trace' = trace \o << <<"lookup", Cur.key>>, <<"decode", Cur.key>>,
                                                 <<"call", target>> >>
                         /\ UNCHANGED <<pc, r, report>>
    /\ UNCHANGED <<fn, out, sel, pre, nalloc, frees, tokenVars, mem, harnessVars>>

\* UINT8_ARY public_blob = { 0, NULL }, private_blob = { 0, NULL };
\* memset(out, 0, sizeof(IFAPI_KEY)).
MemsetStep ==
    /\ AtInstr
    /\ Cur.op = "memset"
    /\ out' = [s \in DOMAIN out |->
                 IF s \in KeySlots THEN ZERO ELSE IF s \in LocalSlots THEN NULL ELSE out[s]]
    /\ stack' = Advance(1)
    /\ UNCHANGED <<pc, fn, doc, sel, pre, r, report, nalloc, frees, trace, tokenVars, mem,
                   harnessVars>>

\* CheckFieldsStep with a key outside the table taken as an error.
CheckFieldsStep_Reject ==
    /\ AtInstr
    /\ Cur.op = "check"
    /\ warn' = warn \cup ifapi_check_json_object_fields(IF extra THEN {UnknownKey} ELSE {},
                                                       AllowList(Top.f))
    /\ trace' = Append(trace, <<"check", Top.f>>)
    /\ IF warn' = {}
       THEN stack' = Advance(1) /\ UNCHANGED <<pc, r, report>>
       ELSE /\ pc' = "ret"
            /\ r' = TSS2_FAPI_RC_BAD_VALUE
            /\ report' = [log |-> "bad_value", field |-> UnknownKey]
            /\ UNCHANGED stack
    /\ UNCHANGED <<fn, doc, out, sel, pre, nalloc, frees, tokenVars, mem, extra, first>>

\* ifapi_check_json_object_fields(jso, &field_.._tab[0], SIZE_OF_ARY(..)); as
\* a statement: whatever it finds is logged and the decoder goes on.
CheckFieldsStep ==
    /\ AtInstr
    /\ Cur.op = "check"
    /\ warn' = warn \cup ifapi_check_json_object_fields(IF extra THEN {UnknownKey} ELSE {},
                                                       AllowList(Top.f))
    /\ trace' = Append(trace, <<"check", Top.f>>)
    /\ stack' = Advance(1)
    /\ UNCHANGED <<pc, fn, doc, out, sel, pre, r, report, nalloc, frees, tokenVars, mem,
                   extra, first>>

\* "noauth": optional, decoded into a local; out->with_auth is TPM2_NO when it
\* is TPM2_YES and TPM2_YES otherwise, also when the key is absent.
NoauthStep ==
    /\ AtInstr
    /\ Cur.op = "noauth"
    /\ \E v \in LookupValues(Cur) :
        /\ doc' = [doc EXCEPT ![Cur.key] = v]
        /\ trace' = IF v = "absent" THEN Append(trace, <<"lookup", Cur.key>>)
                    ELSE trace \o << <<"lookup", Cur.key>>, <<"decode", Cur.key>> >>
        /\ IF v = "bad"
           THEN /\ pc' = "ret"
                /\ r' = TpmJsonDeserialize("TPMI_YES_NO", v, FALSE, ZERO).rc
                /\ report' = [log |-> "bad_value", field |-> Cur.key]
                /\ UNCHANGED <<out, stack>>
           ELSE /\ out' = [out EXCEPT ![Cur.slot] = IF v = "ok_yes" THEN TPM2_NO ELSE TPM2_YES]
                /\ stack' = Advance(1)
                /\ UNCHANGED <<pc, r, report>>
    /\ UNCHANGED <<fn, sel, pre, nalloc, frees, tokenVars, mem, harnessVars>>

\* "public": required; decoded into public_blob, unmarshalled into out->public
\* (return_if_error), then SAFE_FREE(public_blob.buffer).
ImportPublicStep ==
    /\ AtInstr
    /\ Cur.op = "import_public"
    /\ \E v \in LookupValues(Cur) :
        \E oom \in (IF v \in {"absent", "bad"} THEN {FALSE} ELSE AllocOutcomes(Cur.key, "UINT8_ARY")) :
        LET blob == TpmJsonDeserialize("UINT8_ARY", IF v = "bad" THEN "bad" ELSE "ok", oom, NULL)
            mu == Tss2_MU_Unmarshal(v)
            fr == SAFE_FREE(Blk(nalloc + 1))
        IN  /\ doc' = [doc EXCEPT ![Cur.key] = v]
            /\ mem' = IF v \in {"absent", "bad"} THEN mem ELSE Asked(Cur.key, oom)
            /\ IF v = "absent"
               THEN /\ pc' = "ret"
                    /\ r' = AbsentField(Cur, NULL).rc
                    /\ report' = [log |-> "not_found", field |-> Cur.key]
                    /\ trace' = Append(trace, <<"lookup", Cur.key>>)
                    /\ UNCHANGED <<out, nalloc, frees, stack>>
               ELSE IF blob.rc # TSS2_RC_SUCCESS
               THEN /\ pc' = "ret"
                    /\ r' = blob.rc
                    /\ report' = [log |-> "bad_value", field |-> Cur.key]
                    /\ trace' = trace \o << <<"lookup", Cur.key>>, <<"decode", Cur.key>> >>
                    /\ UNCHANGED <<out, nalloc, frees, stack>>
               ELSE IF mu # TSS2_RC_SUCCESS
               THEN /\ pc' = "ret"
                    /\ r' = mu
                    /\ report' = [log |-> "invalid_data", field |-> Cur.key]
                    /\ out' = [out EXCEPT ![Cur.slot] = Blk(nalloc + 1)]
                    /\ nalloc' = nalloc + 1
                    /\ trace' = trace \o << <<"lookup", Cur.key>>, <<"decode", Cur.key>>,
                                            <<"unmarshal", Cur.key>> >>
                    /\ UNCHANGED <<frees, stack>>
               ELSE /\ out' = [out EXCEPT !["public"] = DECODED, ![Cur.slot] = fr.ptr]
                    /\ nalloc' = nalloc + 1
                    /\ frees' = frees \o fr.freed
                    /\ trace' = trace \o << <<"lookup", Cur.key>>, <<"decode", Cur.key>>,
                                            <<"unmarshal", Cur.key>> >>
                    /\ stack' = Advance(1)
                    /\ UNCHANGED <<pc, r, report>>
    /\ UNCHANGED <<fn, sel, pre, tokenVars, harnessVars>>

\* "private": optional; decoded into private_blob (return_if_error),
\* unmarshalled into a local (goto error_cleanup), SAFE_FREE(private_blob.buffer),
\* out->private.buffer = malloc(..) (goto error_cleanup if NULL); out->private
\* is zeroed when the key is absent.
ImportPrivateStep ==
    /\ AtInstr
    /\ Cur.op = "import_private"
    /\ \E v \in LookupValues(Cur) :
        \E oom \in (IF v \in {"absent", "bad"} THEN {FALSE} ELSE AllocOutcomes(Cur.key, "UINT8_ARY")),
           oom2 \in (IF v = "ok" THEN AllocOutcomes("private_copy", "UINT8_ARY") ELSE {FALSE}) :
        LET blob == TpmJsonDeserialize("UINT8_ARY", IF v = "bad" THEN "bad" ELSE "ok", oom, NULL)
            mu == Tss2_MU_Unmarshal(v)
            fr == SAFE_FREE(Blk(nalloc + 1))
            copied == v = "ok" /\ blob.rc = TSS2_RC_SUCCESS
        IN  /\ doc' = [doc EXCEPT ![Cur.key] = v]
            /\ mem' = IF v \in {"absent", "bad"} THEN mem
                      ELSE [mem EXCEPT ![Cur.key] = IF oom THEN "oom" ELSE "ok",
                                       !["private_copy"] = IF ~copied THEN @
                                                           ELSE IF oom2 THEN "oom" ELSE "ok"]
            /\ IF v = "absent"
               THEN /\ out' = [out EXCEPT !["private"] = ZERO]
                    /\ trace' = Append(trace, <<"lookup", Cur.key>>)
                    /\ stack' = Advance(1)
                    /\ UNCHANGED <<pc, r, report, nalloc, frees>>
               ELSE IF blob.rc # TSS2_RC_SUCCESS
               THEN /\ pc' = "ret"
                    /\ r' = blob.rc
                    /\ report' = [log |-> "bad_value", field |-> Cur.key]
                    /\ trace' = trace \o << <<"lookup", Cur.key>>, <<"decode", Cur.key>> >>
                    /\ UNCHANGED <<out, nalloc, frees, stack>>
               ELSE IF mu # TSS2_RC_SUCCESS
               THEN /\ pc' = "cleanup"
                    /\ r' = mu
                    /\ report' = [log |-> "bad_value", field |-> Cur.key]
                    /\ out' = [out EXCEPT ![Cur.slot] = Blk(nalloc + 1)]
                    /\ nalloc' = nalloc + 1
                    /\ trace' = trace \o << <<"lookup", Cur.key>>, <<"decode", Cur.key>>,
                                            <<"unmarshal", Cur.key>> >>
                    /\ UNCHANGED <<frees, stack>>
               ELSE /\ frees' = frees \o fr.freed
                    /\ trace' = trace \o << <<"lookup", Cur.key>>, <<"decode", Cur.key>>,
                                            <<"unmarshal", Cur.key>> >>
                    /\ IF oom2 /\ copied
                       THEN /\ pc' = "cleanup"
                            /\ r' = TSS2_FAPI_RC_MEMORY
                            /\ report' = [log |-> "out_of_memory", field |-> Cur.key]
                            /\ out' = [out EXCEPT !["private"] = NULL, ![Cur.slot] = fr.ptr]
                            /\ nalloc' = nalloc + 1
                            /\ UNCHANGED stack
                       ELSE /\ out' = [out EXCEPT !["private"] = Blk(nalloc + 2),
                                                  ![Cur.slot] = fr.ptr]
                            /\ nalloc' = nalloc + 2
                            /\ stack' = Advance(1)
                            /\ UNCHANGED <<pc, r, report>>
    /\ UNCHANGED <<fn, sel, pre, tokenVars, harnessVars>>

\* strdup_check(out-><slot>, "", r, error_cleanup).
StrdupCheckStep ==
    /\ AtInstr
    /\ Cur.op = "strdup_check"
    /\ \E oom \in AllocOutcomes(Cur.slot, "char") :
        LET c == ifapi_json_char_deserialize(oom)
        IN  /\ mem' = Asked(Cur.slot, oom)
            /\ IF c.rc = TSS2_RC_SUCCESS
               THEN /\ out' = [out EXCEPT ![Cur.slot] = Blk(nalloc + 1)]
                    /\ nalloc' = nalloc + 1
                    /\ stack' = Advance(1)
                    /\ UNCHANGED <<pc, r, report>>
               ELSE /\ out' = [out EXCEPT ![Cur.slot] = NULL]
                    /\ pc' = "cleanup"
                    /\ r' = c.rc
                    /\ report' = [log |-> "out_of_memory", field |-> Cur.slot]
                    /\ UNCHANGED <<nalloc, stack>>
    /\ UNCHANGED <<fn, doc, sel, pre, frees, trace, tokenVars, harnessVars>>

\* The caller adds a key that is in no allow-list to the document it has had
\* decoded, and has it decoded again by the same decoder into a destination
\* that holds what the first one held; the allocator and the C library behave
\* as they did.
Redecode ==
    /\ pc = "done"
    /\ fn \in Validating
    /\ pre # "null"
    /\ ~extra
    /\ extra' = TRUE
    /\ first' = [r |-> r, out |-> out, sel |-> sel, report |-> report, frees |-> frees]
    /\ out' = PreState(pre)
    /\ sel' = PreSel(pre)
    /\ trace' = <<<<"call", fn>>>>
    /\ pc' = "run"
    /\ r' = TSS2_RC_SUCCESS
    /\ report' = NoReport
    /\ stack' = Push(<<>>, fn)
    /\ nalloc' = 0
    /\ frees' = <<>>
    /\ UNCHANGED <<fn, doc, pre, tokenVars, mem, warn>>

\* return TSS2_RC_SUCCESS at the end of a decoder.
ReturnSuccess ==
    /\ pc = "run"
    /\ stack # <<>>
    /\ Top.i > Len(Prog(Top.f))
    /\ stack' = SubSeq(stack, 1, Len(stack) - 1)
    /\ r' = TSS2_RC_SUCCESS
    /\ pc' = IF Len(stack) = 1 THEN "done" ELSE "run"
    /\ trace' = Append(trace, <<"return", Top.f>>)
    /\ UNCHANGED <<fn, doc, out, sel, pre, report, nalloc, frees, tokenVars, mem, harnessVars>>

\* ReturnError with a caller that does not test the result of the decoder it
\* called: it goes on with its next statement.
ReturnError_Resume ==
    /\ pc = "ret"
    /\ stack # <<>>
    /\ stack' = SubSeq(stack, 1, Len(stack) - 1)
    /\ pc' = IF Len(stack) = 1 THEN "done" ELSE "run"
    /\ trace' = Append(trace, <<"fail", Top.f>>)
    /\ UNCHANGED <<fn, doc, out, sel, pre, r, report, nalloc, frees, tokenVars, mem, harnessVars>>

\* return r of a failed decoder, and return_if_error in each of its callers.
ReturnError ==
    /\ pc = "ret"
    /\ stack # <<>>
    /\ stack' = SubSeq(stack, 1, Len(stack) - 1)
    /\ pc' = IF Len(stack) = 1 THEN "done" ELSE "ret"
    /\ trace' = Append(trace, <<"fail", Top.f>>)
    /\ UNCHANGED <<fn, doc, out, sel, pre, r, report, nalloc, frees, tokenVars, mem, harnessVars>>

(***************************************************************************)
(* The token functions, called on their own.                               *)
(***************************************************************************)
get_number_call ==
    /\ pc = "idle"
    /\ \E t \in Tokens, g \in Indeterminate, l \in Libcs :
        LET n == get_number(t, g, l)
        IN  /\ tok' = t
            /\ tcall' = [f |-> "get_number", num0 |-> g, libc |-> l, out0 |-> <<0, 0>>]
            /\ tres' = [NoResult EXCEPT !.ok = n.ok, !.num = n.num]
    /\ pc' = "tokdone"
    /\ UNCHANGED decodeVars

get_token_start_idx_call ==
    /\ pc = "idle"
    /\ \E t \in Tokens :
        /\ tok' = t
        /\ tcall' = [NoCall EXCEPT !.f = "get_token_start_idx"]
        /\ tres' = [NoResult EXCEPT !.idx = get_token_start_idx(t)]
    /\ pc' = "tokdone"
    /\ UNCHANGED decodeVars

OBJECT_TYPE_CONSTANT_call ==
    /\ pc = "idle"
    /\ \E t \in Tokens, g \in Indeterminate, l \in Libcs :
        LET n == get_number(t, g, l)
            d == ifapi_json_IFAPI_OBJECT_TYPE_CONSTANT_deserialize(t, g, l, PreSel("stale"))
        IN  /\ tok' = t
            /\ tcall' = [f |-> "IFAPI_OBJECT_TYPE_CONSTANT", num0 |-> g, libc |-> l,
                         out0 |-> PreSel("stale")]
            /\ tres' = [NoResult EXCEPT !.ok = n.ok, !.num = n.num, !.rc = d.rc, !.out = d.out]
    /\ pc' = "tokdone"
    /\ UNCHANGED decodeVars

EVENT_TYPE_call ==
    /\ pc = "idle"
    /\ \E t \in Tokens, g \in Indeterminate, l \in Libcs :
        LET n == get_number(t, g, l)
            d == ifapi_json_IFAPI_EVENT_TYPE_deserialize_txt(t, g, l, PreSel("stale"))
        IN  /\ tok' = t
            /\ tcall' = [f |-> "IFAPI_EVENT_TYPE", num0 |-> g, libc |-> l,
                         out0 |-> PreSel("stale")]
            /\ tres' = [NoResult EXCEPT !.ok = n.ok, !.num = n.num, !.rc = d.rc, !.out = d.out,
                                        !.idx = get_token_start_idx(t)]
    /\ pc' = "tokdone"
    /\ UNCHANGED decodeVars

Next ==
    \/ Call
    \/ FieldStep
    \/ SkipField
    \/ DiscriminatorStep
    \/ DiscriminatorAgainStep
    \/ SwitchStep
    \/ SetNameStep
    \/ PolicyStep
    \/ CleanupStep
    \/ UnionStep
    \/ ReturnSuccess
    \/ ReturnError
    \/ MemsetStep
    \/ CheckFieldsStep
    \/ NoauthStep
    \/ ImportPublicStep
    \/ ImportPrivateStep
    \/ StrdupCheckStep
    \/ Redecode
    \/ get_number_call
    \/ get_token_start_idx_call
    \/ OBJECT_TYPE_CONSTANT_call
    \/ EVENT_TYPE_call

Spec == Init /\ [][Next]_vars

(***************************************************************************)
(* Properties.                                                             *)
(***************************************************************************)
Done == pc = "done"

\* Decoder f was called with a destination and has returned.
Returned(f) == Done /\ fn = f /\ pre # "null"

Range(seq) == {seq[i] : i \in DOMAIN seq}

\* Instruction i of decoder f is a required field (signing_scheme: of a key
\* whose decoded public area is not keyed-hash).
IsRequired(f, i) ==
    \/ Prog(f)[i].op \in {"req", "union"}
    \/ Prog(f)[i].op = "cond" /\ out["public"] # KEYEDHASH

AbsentRequired(f) == {i \in DOMAIN Prog(f) : IsRequired(f, i) /\ doc[Prog(f)[i].key] = "absent"}

\* The first absent required field in the decoder's field order.
FirstAbsentRequired(f) == CHOOSE i \in AbsentRequired(f) : \A j \in AbsentRequired(f) : i <= j

\* The documented defaults of the optional fields: <<key, slot, default>>.
DocumentedDefaults(f) ==
    CASE f = "IFAPI_KEY" ->
            { <<"with_auth", "with_auth", TPM2_NO>>, <<"private", "private", ZERO>>,
              <<"appData", "appData", ZERO>>, <<"creationData", "creationData", ZERO>>,
              <<"creationHash", "creationHash", ZERO>>,
              <<"creationTicket", "creationTicket", ZERO>>,
              <<"reset_count", "reset_count", ZERO>>,
              <<"delete_prohibited", "delete_prohibited", TPM2_NO>> }
      [] f = "IFAPI_NV" ->
            { <<"appData", "appData", ZERO>>, <<"with_auth", "with_auth", TPM2_NO>>,
              <<"event_log", "event_log", NULL>> }
      [] f = "IFAPI_HIERARCHY" ->
            { <<"with_auth", "with_auth", TPM2_NO>>,
              <<"esysHandle", "esysHandle", ESYS_TR_RH_OWNER>> }
      [] f = "IFAPI_DUPLICATE" ->
            { <<"certificate", "certificate", NULL>>, <<"policy", "key_tree.policy", NULL>> }

DefaultDecoders == {"IFAPI_KEY", "IFAPI_NV", "IFAPI_HIERARCHY", "IFAPI_DUPLICATE"}

\* Every optional field that is absent from the document holds its default.
DefaultsHold(f) == \A d \in DocumentedDefaults(f) : doc[d[1]] = "absent" => out[d[2]] = d[3]

\* No key of the document that the decoder read holds a value its child
\* decoder rejects.
NothingMalformed == \A k \in Keys : doc[k] # "bad"

\* C1 as stated, granted that no allocation fails: with no required field
\* absent or malformed, the key, NV, hierarchy and duplicate decoders succeed
\* and every absent optional field holds its default.
C1_AsStated ==
    \A f \in DefaultDecoders :
        (/\ Returned(f)
         /\ AbsentRequired(f) = {}
         /\ \A i \in DOMAIN Prog(f) : IsRequired(f, i) => doc[Prog(f)[i].key] # "bad"
         /\ r # TSS2_FAPI_RC_MEMORY)
        => r = TSS2_RC_SUCCESS /\ DefaultsHold(f)

\* C1 (amended): with every required field present, every field that is
\* present (required or optional) well-formed and no allocation failing, the
\* key, NV, hierarchy and duplicate decoders return success and every optional
\* field that is absent holds its documented default, whatever the
\* destination held before.
C1_DefaultsOnSuccess ==
    \A f \in DefaultDecoders :
        (/\ Returned(f)
         /\ AbsentRequired(f) = {}
         /\ NothingMalformed
         /\ r # TSS2_FAPI_RC_MEMORY)
        => r = TSS2_RC_SUCCESS /\ DefaultsHold(f)

\* A key decoded into a destination the caller did not clear, from a document
\* with none of the optional fields.
C1_Witness ==
    /\ Returned("IFAPI_KEY")
    /\ pre = "stale"
    /\ r = TSS2_RC_SUCCESS
    /\ \A d \in DocumentedDefaults("IFAPI_KEY") : doc[d[1]] = "absent"

\* C2 as stated: a document that lacks a required field fails to decode, and
\* the failure reported is "not found" for the first absent required field.
C2_AsStated ==
    \A f \in Decoders :
        (Returned(f) /\ AbsentRequired(f) # {})
        => /\ r # TSS2_RC_SUCCESS
           /\ report = [log |-> "not_found", field |-> Prog(f)[FirstAbsentRequired(f)].key]

\* C2 (amended): a document that lacks a required field never decodes
\* successfully.  The failure reported is "not found" for the first absent
\* required field, with result bad-value, unless a field before it in the
\* decoder's order failed to decode: then it is that field's failure.
C2_MissingRequiredFails ==
    \A f \in Decoders :
        (Returned(f) /\ AbsentRequired(f) # {})
        => /\ r # TSS2_RC_SUCCESS
           /\ \/ /\ report = [log |-> "not_found", field |-> Prog(f)[FirstAbsentRequired(f)].key]
                 /\ r = TSS2_FAPI_RC_BAD_VALUE
              \/ /\ report.log = "bad_value"
                 /\ \E i \in 1..(FirstAbsentRequired(f) - 1) : report.field = Prog(f)[i].key

\* A key document without "description": the fields before it were decoded,
\* two of them into allocations.
C2_Witness ==
    /\ Returned("IFAPI_KEY")
    /\ doc["description"] = "absent"
    /\ report = [log |-> "not_found", field |-> "description"]
    /\ nalloc >= 2

LeakDecoders == {"IFAPI_KEY", "IFAPI_NV", "IFAPI_HIERARCHY", "IFAPI_EXT_PUB_KEY",
                 "IFAPI_DUPLICATE", "IFAPI_EVENT", "IFAPI_OBJECT"}

\* C3: when a top-level decode call returns a failure because a required
\* field is missing, every allocation the call made has been released.
C3_MissingFieldReleasesAll ==
    \A f \in LeakDecoders :
        (Returned(f) /\ r # TSS2_RC_SUCCESS /\ report.log = "not_found")
        => \A n \in 1..nalloc : Blk(n) \in Range(frees)

\* The result a decoder returns for a required field that is absent.
ResultWhenAbsent == AbsentField(Req("objectType", "IFAPI_OBJECT_TYPE_CONSTANT"), ZERO).rc

\* The required fields whose values this file decodes itself.
OwnDecodedFields == {"objectType", "type", "sub_event"}

IsCall(e) == e[1] = "call"
Calls ==
    LET cs == SelectSeq(Tail(trace), IsCall)
    IN  [i \in 1..Len(cs) |-> cs[i][2]]

\* The variant tags and their decoders.
VariantOf ==
    { <<IFAPI_NV_OBJ, "IFAPI_NV">>, <<IFAPI_DUPLICATE_OBJ, "IFAPI_DUPLICATE">>,
      <<IFAPI_EXT_PUB_KEY_OBJ, "IFAPI_EXT_PUB_KEY">>,
      <<IFAPI_HIERARCHY_OBJ, "IFAPI_HIERARCHY">>, <<IFAPI_KEY_OBJ, "IFAPI_KEY">> }

ObjectTypeDecoded ==
    /\ <<"decode", "objectType">> \in Range(trace)
    /\ report # [log |-> "bad_value", field |-> "objectType"]

\* C5: once objectType is decoded, the object decoder runs exactly the variant
\* decoder of the tag; for a value that is no tag it runs none and returns
\* general-failure, where a missing or malformed objectType returns bad-value.
C5_ObjectDispatch ==
    Returned("IFAPI_OBJECT") =>
        IF ObjectTypeDecoded
        THEN IF \E p \in VariantOf : p[1] = sel
             THEN \E p \in VariantOf : p[1] = sel /\ Calls = <<p[2]>>
             ELSE /\ Calls = <<>>
                  /\ r = TSS2_FAPI_RC_GENERAL_FAILURE
                  /\ r # ResultWhenAbsent
        ELSE /\ Calls = <<>>
             /\ r = TSS2_FAPI_RC_BAD_VALUE

\* An object with objectType 6.
C5_Witness ==
    /\ Returned("IFAPI_OBJECT")
    /\ ObjectTypeDecoded
    /\ sel = <<6, 0>>
    /\ Calls = <<>>
    /\ r = TSS2_FAPI_RC_GENERAL_FAILURE

TssNames == { <<"t", "s", "s", "2">>, <<"T", "S", "S", "2">> }
ImaNames == { <<"i", "m", "a", "-", "l", "e", "g", "a", "c", "y">> }
UnknownNames == { <<"b", "o", "g", "u", "s">>, <<"t", "s", "s", "2", "x">> }

\* C6: in an event with recnum, pcr and digests well-formed, type "tss2" runs
\* the TSS event decoder on sub_event, "ima-legacy" the IMA event decoder, and
\* a type name of no event kind returns bad-value with no payload decoder run.
C6_EventDispatch ==
    (/\ Returned("IFAPI_EVENT")
     /\ doc["recnum"] = "ok" /\ doc["pcr"] = "ok" /\ doc["digests"] = "ok"
     /\ doc["type"] = "ok")
    => /\ (tok \in TssNames /\ doc["sub_event"] = "ok") => Calls = <<"IFAPI_TSS_EVENT">>
       /\ (tok \in ImaNames /\ doc["sub_event"] = "ok") => Calls = <<"IFAPI_IMA_EVENT">>
       /\ tok \in UnknownNames => (r = TSS2_FAPI_RC_BAD_VALUE /\ Calls = <<>>)

\* An event of type "tss2" decoded to the end.
C6_Witness ==
    /\ Returned("IFAPI_EVENT")
    /\ tok = <<"t", "s", "s", "2">>
    /\ Calls = <<"IFAPI_TSS_EVENT">>
    /\ r = TSS2_RC_SUCCESS

KnownKinds == { <<IFAPI_TSS_EVENT_TAG, "IFAPI_TSS_EVENT">>, <<IFAPI_IMA_EVENT_TAG, "IFAPI_IMA_EVENT">> }
TypeDecodes == {i \in DOMAIN trace : trace[i] = <<"decode", "type">>}
TypeDecoded == TypeDecodes # {} /\ report # [log |-> "bad_value", field |-> "type"]

\* C7: in an event decode the type is decoded at most once; a payload decoder
\* is run at most once, after the type decoded to a known kind, and it is the
\* decoder of that kind; a call whose type is of no known kind fails with no
\* payload decoder run; the first call on a document, while it has not
\* returned, can take a step, and a call that has returned either succeeded,
\* payload decoded, or logged a failure.
C7_EventStateMachine ==
    fn = "IFAPI_EVENT" =>
        /\ Cardinality(TypeDecodes) <= 1
        /\ Len(Calls) <= 1
        /\ \A i \in DOMAIN trace :
              (i > 1 /\ IsCall(trace[i]))
              => /\ \E j \in TypeDecodes : j < i
                 /\ TypeDecoded
                 /\ <<sel, trace[i][2]>> \in KnownKinds
        /\ (Done /\ TypeDecodes # {} /\ ~(TypeDecoded /\ \E k \in KnownKinds : k[1] = sel))
           => (r # TSS2_RC_SUCCESS /\ Calls = <<>>)
        /\ (~Done /\ ~extra) => ENABLED Next
        /\ Done => \/ r = TSS2_RC_SUCCESS /\ report = NoReport /\ Len(Calls) = 1
                   \/ r # TSS2_RC_SUCCESS /\ report # NoReport

\* An event of type 7, with a sub_event.
C7_Witness ==
    /\ Returned("IFAPI_EVENT")
    /\ TypeDecoded
    /\ sel = <<7, 0>>
    /\ doc["sub_event"] = "ok"
    /\ Calls = <<>>
    /\ r = TSS2_FAPI_RC_BAD_VALUE

\* The token handed to get_number, after the "0x" that selects hexadecimal.
NumberPart == IF strncmp_eq(tok, <<"0", "x">>, 2) THEN From(tok, 2) ELSE tok

\* C8: a token whose part after the optional "0x" holds no digit at all (the
\* empty token, "0x" alone) is not accepted as a number by get_number.
C8_NoDigitRejected ==
    (/\ pc = "tokdone"
     /\ tcall.f = "get_number"
     /\ \A k \in DOMAIN NumberPart : DigitVal(NumberPart[k], 16) < 0)
    => ~tres.ok

\* 0 <= v <= 2^32 - 1, for a signed 64-bit v.
RECURSIVE LimbsLeq(_, _, _)
LimbsLeq(a, b, k) ==
    IF k = 0 THEN TRUE
    ELSE IF a[k] # b[k] THEN a[k] < b[k]
    ELSE LimbsLeq(a, b, k - 1)
InRangeU32(v) == ~I64Negative(v) /\ LimbsLeq(v, <<LimbBase - 1, LimbBase - 1, 0, 0>>, 4)

ConstantDecoders == {"IFAPI_OBJECT_TYPE_CONSTANT", "IFAPI_EVENT_TYPE"}

\* C9: when the token parses as a number v, the object-type and event-type
\* constant decoders return success with result v exactly when
\* 0 <= v <= 2^32 - 1, and bad-value for every other v.
C9_NarrowingChecked ==
    (pc = "tokdone" /\ tcall.f \in ConstantDecoders /\ tres.ok)
    => IF InRangeU32(tres.num)
       THEN tres.rc = TSS2_RC_SUCCESS /\ U32ToI64(tres.out) = tres.num
       ELSE tres.rc = TSS2_FAPI_RC_BAD_VALUE

\* The token "4294967296" (2^32) given to the object-type decoder.
C9_Witness ==
    /\ pc = "tokdone"
    /\ tcall.f = "IFAPI_OBJECT_TYPE_CONSTANT"
    /\ tok = <<"4", "2", "9", "4", "9", "6", "7", "2", "9", "6">>
    /\ tres.ok
    /\ tres.num = <<0, 0, 1, 0>>
    /\ tres.rc = TSS2_FAPI_RC_BAD_VALUE

\* The event-kind names in scan order, and their values.
EventKindNames ==
    << <<ImaNames, IFAPI_IMA_EVENT_TAG>>, <<{ <<"t", "s", "s", "2">> }, IFAPI_TSS_EVENT_TAG>> >>
EventKindName(i) == CHOOSE n \in EventKindNames[i][1] : TRUE

\* The part of an event-type token that is compared with the names.
Remainder == From(tok, tres.idx)

SymbolicCase == pc = "tokdone" /\ tcall.f = "IFAPI_EVENT_TYPE" /\ ~tres.ok

EqualNoCase(a, b, n) == \A k \in 1..n : ToLower(a[k]) = ToLower(b[k])

\* The first entry that matches under the given relation decides the result.
FirstMatchDecides(Match(_, _)) ==
    LET m == {i \in DOMAIN EventKindNames : Match(Remainder, EventKindName(i))}
    IN  IF m = {} THEN tres.rc = TSS2_FAPI_RC_BAD_VALUE
        ELSE /\ tres.rc = TSS2_RC_SUCCESS
             /\ tres.out = EventKindNames[CHOOSE i \in m : \A j \in m : i <= j][2]

MinLengthMatch(a, b) ==
    EqualNoCase(a, b, IF Len(a) < Len(b) THEN Len(a) ELSE Len(b))

PrefixMatch(a, b) == Len(a) <= Len(b) /\ EqualNoCase(a, b, Len(a))

\* C10 as stated: the remainder of a token that is no number is compared with
\* each name over the shorter of the two lengths; the first matching entry in
\* the order "ima-legacy", "tss2" gives the result, no match gives bad-value.
C10_AsStated == SymbolicCase => FirstMatchDecides(MinLengthMatch)

\* C10 (amended): the remainder is compared with each name over the length of
\* the remainder: an entry matches when the remainder is, case-insensitively,
\* an initial part of its name (the empty remainder is one of every name, a
\* remainder longer than the name is one of none); the first matching entry in
\* the order "ima-legacy", "tss2" gives the result, no match gives bad-value.
C10_RemainderLengthMatch == SymbolicCase => FirstMatchDecides(PrefixMatch)

\* The token "t", which resolves to the TSS event kind.
C10_Witness ==
    /\ SymbolicCase
    /\ tok = <<"t">>
    /\ tres.rc = TSS2_RC_SUCCESS
    /\ tres.out = IFAPI_TSS_EVENT_TAG

\* The ordered prefix list.
PrefixList ==
    << <<"T", "P", "M", "2", "_", "A", "L", "G", "_">>, <<"T", "P", "M", "2", "_">>,
       <<"T", "P", "M", "_">>, <<"T", "P", "M", "A", "_">>,
       <<"P", "O", "L", "I", "C", "Y">> >>

\* C11: the start offset get_token_start_idx returns is the length of the first
\* entry of the prefix list that is a case-insensitive prefix of the token, and
\* 0 when no entry is one; at most one prefix is stripped.
C11_FirstPrefixStripped ==
    (pc = "tokdone" /\ tcall.f = "get_token_start_idx")
    => LET m == {i \in DOMAIN PrefixList : PrefixMatch(PrefixList[i], tok)}
       IN  tres.idx = IF m = {} THEN 0
                      ELSE Len(PrefixList[CHOOSE i \in m : \A j \in m : i <= j])

\* The token "TPM2_ALG_SHA256", with offset 9.
C11_Witness ==
    /\ pc = "tokdone"
    /\ tcall.f = "get_token_start_idx"
    /\ tok = <<"T", "P", "M", "2", "_", "A", "L", "G", "_", "S", "H", "A", "2", "5", "6">>
    /\ tres.idx = 9

\* The places of the trace where the derived-name step is run.
SetNames == {i \in DOMAIN trace : trace[i] = <<"set_name", "hierarchy">>}
AfterVariant == {i \in DOMAIN trace : trace[i] \in {<<"lookup", "system">>, <<"lookup", "policy">>}}

\* C12: in the object wrapper the derived-name step is run exactly when the
\* decoded objectType is the hierarchy tag and the hierarchy decoder returned
\* success: once, right after that return, before system and policy are looked
\* up; when it fails the wrapper fails without looking them up; no other
\* variant, and no decoder called on its own, runs it.
C12_DerivedNameStep ==
    /\ fn # "IFAPI_OBJECT" => SetNames = {}
    /\ fn = "IFAPI_OBJECT" =>
        /\ Cardinality(SetNames) <= 1
        /\ \A i \in SetNames :
              /\ i > 1
              /\ trace[i - 1] = <<"return", "IFAPI_HIERARCHY">>
              /\ ObjectTypeDecoded
              /\ sel = IFAPI_HIERARCHY_OBJ
              /\ Calls = <<"IFAPI_HIERARCHY">>
              /\ \A j \in AfterVariant : i < j
        /\ (Done /\ <<"return", "IFAPI_HIERARCHY">> \in Range(trace)) => SetNames # {}
        /\ (Done /\ report.log = "bad_hierarchy")
           => (SetNames # {} /\ r # TSS2_RC_SUCCESS /\ AfterVariant = {})

\* A hierarchy object decoded to the end, its name derived.
C12_Witness ==
    /\ Returned("IFAPI_OBJECT")
    /\ sel = IFAPI_HIERARCHY_OBJ
    /\ SetNames # {}
    /\ AfterVariant # {}
    /\ r = TSS2_RC_SUCCESS

\* C13: a document decoded again by the import-key, quote-info, TSS-event,
\* IMA-event or event decoder, after a key that is in no allow-list was added
\* to it, gives the result, the destination and the logged failure that it
\* gave without the key.
C13_AllowListNoEffect ==
    (Done /\ first # NoOutcome)
    => /\ r = first.r
       /\ out = first.out
       /\ sel = first.sel
       /\ report = first.report
       /\ frees = first.frees

\* An event decoded with success a second time, the added key logged.
C13_Witness ==
    /\ Returned("IFAPI_EVENT")
    /\ first # NoOutcome
    /\ UnknownKey \in warn
    /\ r = TSS2_RC_SUCCESS
    /\ Len(Calls) = 1

SigningSchemeLookedUp == <<"lookup", "signing_scheme">> \in Range(trace)
SigningSchemeDecoded == <<"decode", "signing_scheme">> \in Range(trace)

\* C14: in the key decoder signing_scheme is looked up only after the public
\* area decoded to a type other than keyed-hash, and a decode that succeeds
\* with such a type has looked it up and decoded it; with a keyed-hash type
\* the field is neither looked up nor decoded and the destination's
\* signing_scheme is what it was before the call; with any other type a
\* document without signing_scheme fails, with TSS2_FAPI_RC_BAD_VALUE once the
\* field has been looked up.
C14_SigningSchemeConditional ==
    fn = "IFAPI_KEY" =>
        /\ SigningSchemeLookedUp
           => (<<"decode", "public">> \in Range(trace) /\ out["public"] # KEYEDHASH)
        /\ (Done /\ r = TSS2_RC_SUCCESS /\ out["public"] # KEYEDHASH)
           => (SigningSchemeLookedUp /\ SigningSchemeDecoded)
        /\ out["public"] = KEYEDHASH
           => /\ ~SigningSchemeLookedUp
              /\ ~SigningSchemeDecoded
              /\ doc["signing_scheme"] \in {"?", "absent"}
              /\ out["signing_scheme"] = PreState(pre)["signing_scheme"]
        /\ (Done /\ pre # "null" /\ out["public"] # KEYEDHASH /\ doc["signing_scheme"] = "absent")
           => /\ r # TSS2_RC_SUCCESS
              /\ SigningSchemeLookedUp
                 => /\ r = TSS2_FAPI_RC_BAD_VALUE
                    /\ report = [log |-> "not_found", field |-> "signing_scheme"]

\* A keyed-hash key whose document has no signing_scheme is decoded into a
\* destination that was not cleared: the decode succeeds and the
\* destination's signing_scheme still holds what it held.
C14_Witness ==
    /\ Returned("IFAPI_KEY")
    /\ out["public"] = KEYEDHASH
    /\ doc["signing_scheme"] = "absent"
    /\ r = TSS2_RC_SUCCESS
    /\ pre = "stale"
    /\ out["signing_scheme"] = JUNK
    /\ ~SigningSchemeLookedUp

\* A lookup of a required field or a child decode has failed: the failure
\* was logged.
Failed == report # NoReport

\* The step belongs to the call that failed.
StepOfFailedCall == Failed /\ fn \in Decoders /\ extra' = extra

\* After the first failure nothing is looked up, decoded, called, allocated
\* or retried, and the result stays that failure's.
NothingAfterFailure ==
    /\ r # TSS2_RC_SUCCESS
    /\ r' = r
    /\ report' = report
    /\ doc' = doc
    /\ sel' = sel
    /\ nalloc' = nalloc
    /\ Len(stack') <= Len(stack)
    /\ Len(trace') >= Len(trace)
    /\ \A i \in DOMAIN trace' :
          IF i <= Len(trace) THEN trace'[i] = trace[i] ELSE trace'[i][1] = "fail"

\* C15 as stated: after the first failure no field of the destination is
\* written.
C15_AsStated ==
    [][StepOfFailedCall
       => /\ NothingAfterFailure
          /\ \A s \in DOMAIN out : s \notin LocalSlots => out'[s] = out[s]]_vars

\* C15: after the first failure of a lookup of a required field or of a child
\* decode, the call keeps that failure's result until it has returned it;
\* nothing more is looked up, decoded, called or retried, and the only write
\* to the destination is the cleanup label's, which sets the policy pointer
\* it has released to null.
C15_FailFast ==
    [][StepOfFailedCall
       => /\ NothingAfterFailure
          /\ \A s \in DOMAIN out :
                (s \notin LocalSlots /\ out'[s] # out[s])
                => (pc = "cleanup" /\ s = PolicySlot(Top.f) /\ out'[s] = NULL)]_vars

\* A duplicate inside an object whose policy does not decode: the duplicate's
\* cleanup has released the policy, and the object decoder has returned the
\* failure without looking up system or policy.
C15_Witness ==
    /\ Returned("IFAPI_OBJECT")
    /\ Failed
    /\ r # TSS2_RC_SUCCESS
    /\ Len(trace) > 2
    /\ trace[Len(trace) - 1] = <<"fail", "IFAPI_DUPLICATE">>
    /\ trace[Len(trace)] = <<"fail", "IFAPI_OBJECT">>
    /\ frees = <<Blk(1)>>
    /\ out[PolicySlot("IFAPI_DUPLICATE")] = NULL
    /\ doc["system"] = "?"

\* The variant's payload decoder has returned success to the object wrapper.
VariantDecoded ==
    fn = "IFAPI_OBJECT"
    /\ \E i \in DOMAIN trace : trace[i][1] = "return" /\ trace[i][2] # "IFAPI_OBJECT"

PolicyFailed == VariantDecoded /\ Failed /\ report.field = "policy"

\* C16: in the object wrapper, once the variant's payload has decoded: a
\* document without "system" leaves system TPM2_NO; one without "policy"
\* leaves the policy pointer null; one whose policy decodes leaves it pointing
\* to the block allocated for it, and that block is not released; when the
\* allocation fails the call returns TSS2_FAPI_RC_MEMORY with the pointer
\* null and nothing released, and when the decode fails it returns
\* TSS2_FAPI_RC_BAD_VALUE with the pointer null and the block released once.
C16_ObjectTail ==
    VariantDecoded =>
        /\ (<<"lookup", "system">> \in Range(trace) /\ doc["system"] = "absent")
           => out["system"] = TPM2_NO
        /\ (Done /\ r = TSS2_RC_SUCCESS)
           => /\ doc["system"] \in {"absent", "ok"}
              /\ doc["policy"] \in {"absent", "ok"}
              /\ doc["policy"] = "absent" => out["policy"] = NULL
              /\ doc["policy"] = "ok"
                 => /\ nalloc > 0
                    /\ out["policy"] = Blk(nalloc)
                    /\ Blk(nalloc) \notin Range(frees)
        /\ (Done /\ PolicyFailed)
           => /\ out["policy"] = NULL
              /\ r \in {TSS2_FAPI_RC_MEMORY, TSS2_FAPI_RC_BAD_VALUE}
              /\ r = TSS2_FAPI_RC_MEMORY => frees = <<>>
              /\ r = TSS2_FAPI_RC_BAD_VALUE => (nalloc > 0 /\ frees = <<Blk(nalloc)>>)
        /\ Done => out["policy"] \notin Range(frees)

\* A key object without "system" whose policy does not decode, decoded into a
\* destination that was not cleared.
C16_Witness ==
    /\ Returned("IFAPI_OBJECT")
    /\ PolicyFailed
    /\ pre = "stale"
    /\ Calls = <<"IFAPI_KEY">>
    /\ doc["system"] = "absent"
    /\ out["system"] = TPM2_NO
    /\ r = TSS2_FAPI_RC_BAD_VALUE
    /\ out["policy"] = NULL
    /\ nalloc > 1
    /\ frees = <<Blk(nalloc)>>

\* The blocks the call allocated, and those of them it has not released.
Allocated == {Blk(n) : n \in 1..nalloc}
Live == Allocated \ Range(frees)

\* C17: when the import-key decoder has returned, neither public_blob.buffer
\* nor private_blob.buffer is a block that was allocated and not released.
C17_BlobsReleased ==
    Returned("import_IFAPI_KEY") => \A s \in LocalSlots : out[s] \notin Live

\* The exit paths other than the failed unmarshal of the public blob release
\* the intermediate buffers.
C17_OtherPathsRelease ==
    (Returned("import_IFAPI_KEY") /\ report # [log |-> "invalid_data", field |-> "public"])
    => \A s \in LocalSlots : out[s] \notin Live

\* C18: every pointer a call hands to free() is a block this call allocated,
\* and none is handed to free() twice.
C18_FreesOwnOnce ==
    fn \in Decoders =>
        /\ \A i \in DOMAIN frees : frees[i] \in Allocated
        /\ \A i, j \in DOMAIN frees : frees[i] = frees[j] => i = j

\* Only the unrecognized-tag path of the object wrapper, entered with a
\* destination that was not cleared, releases what the call did not allocate.
C18_OtherPathsOwn ==
    (fn \in Decoders /\ ~(pre = "stale" /\ report = [log |-> "invalid_call", field |-> "objectType"]))
    => C18_FreesOwnOnce

=============================================================================
